---- MODULE Spec2Model ----
(***************************************************************************)
(* Model of the deploy-test repository: the container entrypoint           *)
(* (entrypoint.sh: wait for Postgres, prisma migrate deploy, exec node),   *)
(* the image it runs in (Dockerfile), the Fastify server (src/index.ts,    *)
(* GET /users over prisma.user.findMany), the User table of the Prisma     *)
(* schema, the Jenkins pipeline (Jenkinsfile) and the test program it     *)
(* runs (test.ts).                                                         *)
(***************************************************************************)
EXTENDS Integers, Sequences, FiniteSets, Bags, TLC

VARIABLES
    image,          \* which Dockerfile built the image the entrypoint runs in
    run,            \* number of the current container start (1, 2, ...)
    pc,             \* position of the entrypoint / server process
    exitStatus,     \* exit status of the container's main process, RUNNING while alive
    probes,         \* pg_isready invocations of this run (saturating count)
    slept,          \* seconds this run has spent in `sleep 1` (saturating)
    probeOk,        \* some pg_isready of this run returned 0
    migrateCalls,   \* invocations of `npx prisma migrate deploy` in this run
    migrateStatus,  \* exit status of this run's migrate deploy, RUNNING until it ends
    log,            \* lines this run has written to the container log
    server,         \* state of the HTTP listener of index.ts
    db,             \* state of the Postgres service
    ledger,         \* _prisma_migrations: state of every migration of prisma/migrations
    schema,         \* the migrations whose SQL has been executed, in order, with the run that did
    generated,      \* migrations written to prisma/migrations by a container start
    clock,          \* the database clock, in milliseconds
    nextId,         \* next value of the User.id sequence
    table,          \* rows of the User table, in the order they were inserted
    txns,           \* insert transactions that have begun and not yet executed
    inserts,        \* number of insert transactions begun so far
    rejected,       \* number of inserts the unique index rejected
    reqs,           \* GET /users requests in flight: one slot per concurrent request
    resp,           \* the last response the server has sent
    first,          \* status and number of rows of the first response sent
    pipeline,       \* the pipeline definition the Jenkins job runs
    addImpl,        \* the body of add() in test.ts at the commit being built
    build,          \* BUILD_NUMBER of the current pipeline run, 0 before the first
    ppc,            \* where the pipeline run is: "idle", "stages", "post", "done"
    step,           \* number of the stage, or of the post condition, to run next
    ran,            \* the stages this run has executed, with their exit status
    result,         \* the build result of this run
    result2,        \* the build result of the same run made with the other secret
    mails,          \* the notifications this run has triggered (curl invocations)
    plog,           \* the console log of this run
    plog2,          \* the console log of the same run made with the other secret
    secret,         \* the secret text stored under the credential id mailtrap-password
    secret2,        \* the secret of the other run
    containers,     \* the containers of docker-compose.app.yml that are running
    atFailure,      \* the running containers when a stage of this run failed
    testOut         \* exit status, assertions evaluated and output of the test program

seqVars == <<image, run, pc, exitStatus, probes, slept, probeOk, migrateCalls, migrateStatus, log, server>>
dbVars  == <<db, ledger, schema, generated>>
apiVars == <<clock, nextId, table, txns, inserts, rejected, reqs, resp, first>>
pipeVars == <<pipeline, addImpl, build, ppc, step, ran, result, result2, mails, plog, plog2,
              secret, secret2, containers, atFailure, testOut>>
vars    == <<image, run, pc, exitStatus, probes, slept, probeOk, migrateCalls, migrateStatus,
             log, server, db, ledger, schema, generated, clock, nextId, table, txns, inserts,
             rejected, reqs, resp, first,
             pipeline, addImpl, build, ppc, step, ran, result, result2, mails, plog, plog2,
             secret, secret2, containers, atFailure, testOut>>

(***************************************************************************)
(* Bounds of the model.                                                    *)
(***************************************************************************)
MaxRuns == 2
MaxProbes == 3
NumMigrations == 2
MaxInserts == 2
MaxTicks == 1
MaxReqs == 1
ClockStart == 999

\* not an exit status: the process has not ended
RUNNING == 0 - 1

Migrations == 1..NumMigrations

(***************************************************************************)
(* The image.  src/Dockerfile installs no apk package on node:22-alpine;   *)
(* the Dockerfile documented in README.md adds postgresql-client, the      *)
(* package that ships pg_isready.                                          *)
(***************************************************************************)
Images == {"Dockerfile", "ReadmeDockerfile"}

BaseImageCommands == {"sh", "echo", "sleep", "node", "npm", "npx"}

DockerfileApk == {}

ReadmeDockerfileApk == {"postgresql-client"}

ApkPackages(img) == IF img = "Dockerfile" THEN DockerfileApk ELSE ReadmeDockerfileApk

PackageCommands(pkgs) == IF "postgresql-client" \in pkgs THEN {"pg_isready", "psql"} ELSE {}

Installed(img, cmd) == cmd \in BaseImageCommands \cup PackageCommands(ApkPackages(img))

(***************************************************************************)
(* pg_isready -h db -p 5432 -U prisma: 0 accepting, 1 rejecting (starting  *)
(* up), 2 no response; the shell gives 127 for a command it cannot find.   *)
(***************************************************************************)
PgIsReady(img, d) ==
    IF ~Installed(img, "pg_isready") THEN 127
    ELSE IF d = "accepting" THEN 0
    ELSE IF d = "starting" THEN 1
    ELSE 2

(***************************************************************************)
(* What the probe writes to the container log: pg_isready reports on        *)
(* stdout; stderr, with the shell's "not found", goes to /dev/null.        *)
(***************************************************************************)
PgIsReadyStdout(status) ==
    IF status = 0 THEN {"db:5432 - accepting connections"}
    ELSE IF status = 1 THEN {"db:5432 - rejecting connections"}
    ELSE IF status = 2 THEN {"db:5432 - no response"}
    ELSE {}

(***************************************************************************)
(* Shell semantics of entrypoint.sh.                                       *)
(***************************************************************************)
\* `until CMD; do sleep 1; done`: the loop ends when CMD exits 0, otherwise its body
\* runs; set -e does not apply to the condition of an until loop.
UntilNextAbort(status) == IF status = 0 THEN "ready" ELSE "exited"
UntilNextWhile(status) == IF status = 0 THEN "sleep" ELSE "ready"
UntilNext(status) == IF status = 0 THEN "ready" ELSE "sleep"

\* set -e (line 2): a simple command that exits non-zero ends the script with that status.
AfterCommandNoErrexit(status, next) == next
AfterCommand(status, next) == IF status # 0 THEN "exited" ELSE next

\* sleep 1 (line 6)
SleepSeconds == 1

(***************************************************************************)
(* GET /users requests in flight, and the last response sent.  startLen,    *)
(* readLen and later record when a request ran relative to the inserts and *)
(* to the first response the server sent.                                  *)
(***************************************************************************)
ReqIds == 1..MaxReqs

IdleReq == [st |-> "idle", startLen |-> 0, later |-> FALSE]

NoResp ==
    [status |-> 0, kind |-> "none", users |-> EmptyBag, readOk |-> FALSE, reads |-> 0,
     startLen |-> 0, readLen |-> 0, later |-> FALSE]

NoFirst == [status |-> 0, len |-> 0]

Sat(n, max) == IF n < max THEN n + 1 ELSE max

NoTest == [status |-> RUNNING, evaluated |-> 0, lines |-> <<>>]

\* no pipeline run has been triggered
PipelineIdle ==
    /\ pipeline = "Jenkinsfile"
    /\ addImpl = "a + b"
    /\ build = 0
    /\ ppc = "idle"
    /\ step = 0
    /\ ran = <<>>
    /\ result = "SUCCESS"
    /\ result2 = "SUCCESS"
    /\ mails = <<>>
    /\ plog = <<>>
    /\ plog2 = <<>>
    /\ secret = <<>>
    /\ secret2 = <<>>
    /\ containers = {}
    /\ atFailure = {}
    /\ testOut = NoTest

Init ==
    /\ image \in Images
    /\ run = 1
    /\ pc = "start"
    /\ exitStatus = RUNNING
    /\ probes = 0
    /\ slept = 0
    /\ probeOk = FALSE
    /\ migrateCalls = 0
    /\ migrateStatus = RUNNING
    /\ log = {}
    /\ server = "none"
    /\ db = "down"
    /\ ledger = [m \in Migrations |-> "pending"]
    /\ schema = <<>>
    /\ generated = 0
    /\ clock = ClockStart
    /\ nextId = 1
    /\ table = <<>>
    /\ txns = {}
    /\ inserts = 0
    /\ rejected = 0
    /\ reqs = [r \in ReqIds |-> IdleReq]
    /\ resp = NoResp
    /\ first = NoFirst
    /\ PipelineIdle

(***************************************************************************)
(* The Postgres service (container deploy-test-db).                        *)
(***************************************************************************)
DbBoot ==
    /\ db = "down"
    /\ db' = "starting"
    /\ UNCHANGED <<pipeVars, seqVars, ledger, schema, generated, apiVars>>

DbAccept ==
    /\ db = "starting"
    /\ db' = "accepting"
    /\ UNCHANGED <<pipeVars, seqVars, ledger, schema, generated, apiVars>>

\* the service stops: the open connections, and the transactions on them, are lost
DbStop ==
    /\ db # "down"
    /\ db' = "down"
    /\ txns' = {}
    /\ UNCHANGED <<pipeVars, seqVars, ledger, schema, generated, clock, nextId, table, inserts, rejected, reqs, resp, first>>

(***************************************************************************)
(* entrypoint.sh                                                           *)
(***************************************************************************)
\* line 4
Start ==
    /\ pc = "start"
    /\ pc' = "probe"
    /\ log' = log \cup {"Waiting for Postgres to be ready..."}
    /\ UNCHANGED <<pipeVars, image, run, exitStatus, probes, slept, probeOk, migrateCalls, migrateStatus,
                   server, dbVars, apiVars>>

\* line 5: one evaluation of the until condition
Probe ==
    /\ pc = "probe"
    /\ LET status == PgIsReady(image, db)
           next == UntilNext(status)
       IN /\ probes' = Sat(probes, MaxProbes)
          /\ probeOk' = (probeOk \/ status = 0)
          /\ pc' = next
          /\ exitStatus' = IF next = "exited" THEN status ELSE exitStatus
          /\ log' = log \cup PgIsReadyStdout(status)
    /\ UNCHANGED <<pipeVars, image, run, slept, migrateCalls, migrateStatus, server, dbVars, apiVars>>

\* line 6
Sleep ==
    /\ pc = "sleep"
    /\ pc' = "probe"
    /\ slept' = IF slept < MaxProbes * SleepSeconds THEN slept + SleepSeconds ELSE slept
    /\ UNCHANGED <<pipeVars, image, run, exitStatus, probes, probeOk, migrateCalls, migrateStatus,
                   log, server, dbVars, apiVars>>

\* line 11 runs the deploy subcommand of prisma migrate; `migrate dev` is the
\* developer's command, the one that writes a new migration to prisma/migrations
MigrateSubcommand == "deploy"

Generates(subcommand) == subcommand = "dev"

\* lines 8-11: the loop has ended; npx prisma migrate deploy is started
MigrateStart ==
    /\ pc = "ready"
    /\ pc' = "migrating"
    /\ migrateCalls' = migrateCalls + 1
    /\ generated' = IF Generates(MigrateSubcommand) THEN generated + 1 ELSE generated
    /\ log' = log \cup {"Postgres is ready!", "Running Prisma migrations..."}
    /\ UNCHANGED <<pipeVars, image, run, exitStatus, probes, slept, probeOk, migrateStatus, server,
                   db, ledger, schema, apiVars>>

\* migrate deploy works on the migrations the ledger does not record as applied
PendingIgnoresLedger == Migrations
Pending == {m \in Migrations : ledger[m] = "pending"}
Failed == {m \in Migrations : ledger[m] = "failed"}
Lowest(S) == CHOOSE m \in S : \A n \in S : m <= n

MigrateEndRetry(status) ==
    /\ migrateStatus' = status
    /\ pc' = IF status # 0 THEN "ready" ELSE "exec"
    /\ exitStatus' = exitStatus
    /\ log' = log

\* the end of `npx prisma migrate deploy` with the given exit status, under set -e
MigrateEnd(status) ==
    /\ migrateStatus' = status
    /\ pc' = AfterCommand(status, "exec")
    /\ exitStatus' = IF pc' = "exited" THEN status ELSE exitStatus
    /\ log' = IF status # 0 THEN log \cup {"Error: migrate deploy"} ELSE log

\* migrate deploy cannot reach the database, or finds a failed migration in the ledger
MigrateError ==
    /\ pc = "migrating"
    /\ db # "accepting" \/ Failed # {}
    /\ MigrateEnd(1)
    /\ UNCHANGED <<pipeVars, image, run, probes, slept, probeOk, migrateCalls, server, dbVars, apiVars>>

\* migrate deploy applies the next pending migration and records it in the ledger
MigrateApply ==
    /\ pc = "migrating"
    /\ db = "accepting" /\ Failed = {} /\ Pending # {}
    /\ ledger' = [ledger EXCEPT ![Lowest(Pending)] = "applied"]
    /\ schema' = Append(schema, [migration |-> Lowest(Pending), run |-> run])
    /\ UNCHANGED <<pipeVars, seqVars, db, generated, apiVars>>

\* the SQL of the next pending migration fails (conflicting schema state)
MigrateApplyFails ==
    /\ pc = "migrating"
    /\ db = "accepting" /\ Failed = {} /\ Pending # {}
    /\ ledger' = [ledger EXCEPT ![Lowest(Pending)] = "failed"]
    /\ MigrateEnd(1)
    /\ UNCHANGED <<pipeVars, image, run, probes, slept, probeOk, migrateCalls, server, db, schema,
                   generated, apiVars>>

\* nothing is pending any more: migrate deploy exits 0
MigrateDone ==
    /\ pc = "migrating"
    /\ db = "accepting" /\ Failed = {} /\ Pending = {}
    /\ MigrateEnd(0)
    /\ UNCHANGED <<pipeVars, image, run, probes, slept, probeOk, migrateCalls, server, dbVars, apiVars>>

\* lines 13-14: exec replaces the shell by node dist/index.js
Exec ==
    /\ pc = "exec"
    /\ pc' = "node"
    /\ server' = "starting"
    /\ log' = log \cup {"Starting application..."}
    /\ UNCHANGED <<pipeVars, image, run, exitStatus, probes, slept, probeOk, migrateCalls, migrateStatus,
                   dbVars, apiVars>>

(***************************************************************************)
(* src/index.ts: app.listen                                                *)
(***************************************************************************)
\* the callback of app.listen (lines 17-23): with an error it writes it to stderr and
\* ends the process with status 1; otherwise it reports the address it listens on
ListenCallbackFallsThrough(err) ==
    IF err THEN [lines |-> {"Error: listen", "Server running"}, exit |-> TRUE, status |-> 0]
    ELSE [lines |-> {"Server running"}, exit |-> FALSE, status |-> RUNNING]
ListenCallback(err) ==
    IF err THEN [lines |-> {"Error: listen"}, exit |-> TRUE, status |-> 1]
    ELSE [lines |-> {"Server running"}, exit |-> FALSE, status |-> RUNNING]

\* port 3000 is bound
ListenOk ==
    /\ pc = "node" /\ server = "starting"
    /\ server' = "listening"
    /\ log' = log \cup ListenCallback(FALSE).lines
    /\ UNCHANGED <<pipeVars, image, run, pc, exitStatus, probes, slept, probeOk, migrateCalls,
                   migrateStatus, dbVars, apiVars>>

\* the bind fails (port in use): node is the container's main process since the exec
\* of entrypoint.sh line 14, so its exit status is the container's
ListenFail ==
    /\ pc = "node" /\ server = "starting"
    /\ server' = "closed"
    /\ pc' = IF ListenCallback(TRUE).exit THEN "exited" ELSE pc
    /\ exitStatus' = ListenCallback(TRUE).status
    /\ log' = log \cup ListenCallback(TRUE).lines
    /\ UNCHANGED <<pipeVars, image, run, probes, slept, probeOk, migrateCalls, migrateStatus,
                   dbVars, apiVars>>

\* restart: unless-stopped: the exited container is started again from line 1
RestartSkipsMigration ==
    /\ pc = "exited"
    /\ run < MaxRuns
    /\ run' = run + 1
    /\ pc' = IF \A m \in Migrations : ledger[m] = "applied" THEN "exec" ELSE "start"
    /\ exitStatus' = RUNNING
    /\ probes' = 0
    /\ slept' = 0
    /\ probeOk' = FALSE
    /\ migrateCalls' = 0
    /\ migrateStatus' = RUNNING
    /\ log' = {}
    /\ server' = "none"
    /\ UNCHANGED <<pipeVars, image, dbVars, apiVars>>

Restart ==
    /\ pc = "exited"
    /\ run < MaxRuns
    /\ run' = run + 1
    /\ pc' = "start"
    /\ exitStatus' = RUNNING
    /\ probes' = 0
    /\ slept' = 0
    /\ probeOk' = FALSE
    /\ migrateCalls' = 0
    /\ migrateStatus' = RUNNING
    /\ log' = {}
    /\ server' = "none"
    /\ UNCHANGED <<pipeVars, image, dbVars, apiVars>>

Sequencer ==
    \/ Start
    \/ Probe
    \/ Sleep
    \/ MigrateStart
    \/ MigrateError
    \/ MigrateApply
    \/ MigrateApplyFails
    \/ MigrateDone
    \/ Exec
    \/ ListenOk
    \/ ListenFail

Next ==
    \/ DbBoot
    \/ DbAccept
    \/ DbStop
    \/ Start
    \/ Probe
    \/ Sleep
    \/ MigrateStart
    \/ MigrateError
    \/ MigrateApply
    \/ MigrateApplyFails
    \/ MigrateDone
    \/ Exec
    \/ ListenOk
    \/ ListenFail
    \/ Restart

Spec == Init /\ [][Next]_vars

\* The shell and node run their next step whenever they have one.
FairSpec == Spec /\ WF_vars(Sequencer)

(***************************************************************************)
(* The User table (model User of prisma/schema.prisma) in Postgres.        *)
(***************************************************************************)
\* the (name, email) pairs a client inserts
Inputs ==
    {[name |-> "Ada", email |-> "ada@example.com"],
     [name |-> "Bob", email |-> "bob@example.com"],
     [name |-> "Eve", email |-> "ada@example.com"]}

\* createdAt DateTime @default(now()): now() is the start time of the transaction
Now(clk) == clk

\* email String @unique
UniqueViolationNever(tbl, email) == FALSE
UniqueViolation(tbl, email) == \E i \in 1..Len(tbl) : tbl[i].email = email

\* the User table has been created by the first migration
TableExists == ledger[1] = "applied"

Tick ==
    /\ clock < ClockStart + MaxTicks
    /\ clock' = clock + 1
    /\ UNCHANGED <<pipeVars, seqVars, dbVars, nextId, table, txns, inserts, rejected, reqs, resp, first>>

\* a client opens a transaction that will insert (name, email); id and createdAt are
\* left to their defaults
InsertBegin(name, email) ==
    /\ inserts < MaxInserts
    /\ db = "accepting" /\ TableExists
    /\ inserts' = inserts + 1
    /\ txns' = txns \cup {[tid |-> inserts + 1, name |-> name, email |-> email,
                           ts |-> Now(clock), began |-> Len(table)]}
    /\ UNCHANGED <<pipeVars, seqVars, dbVars, clock, nextId, table, rejected, reqs, resp, first>>

\* the INSERT executes and commits: id is the next value of the sequence (consumed also
\* when the row is rejected), createdAt the transaction's now(); the unique index on
\* email rejects a duplicate
InsertExec(t) ==
    /\ t \in txns
    /\ db = "accepting"
    /\ txns' = txns \ {t}
    /\ nextId' = nextId + 1
    /\ IF UniqueViolation(table, t.email)
       THEN /\ rejected' = rejected + 1
            /\ table' = table
       ELSE /\ rejected' = rejected
            /\ table' = Append(table, [id |-> nextId, name |-> t.name, email |-> t.email,
                                       createdAt |-> t.ts, began |-> t.began])
    /\ UNCHANGED <<pipeVars, seqVars, dbVars, clock, inserts, reqs, resp, first>>

(***************************************************************************)
(* src/index.ts: app.get('/users', async () => prisma.user.findMany())     *)
(***************************************************************************)
User(row) == [id |-> row.id, name |-> row.name, email |-> row.email, createdAt |-> row.createdAt]

\* prisma.user.findMany() without arguments: every row of the table (SELECT without
\* WHERE, ORDER BY or LIMIT).  The order of the result is the database's choice, so the
\* result is kept as the bag of its elements.
FindManyFirst(tbl) == IF Len(tbl) = 0 THEN EmptyBag ELSE SetToBag({User(tbl[1])})
FindManyStale(tbl) == SetToBag({User(tbl[i]) : i \in 1..(Len(tbl) - 1)})
FindMany(tbl) == SetToBag({User(tbl[i]) : i \in 1..Len(tbl)})

\* the rows the query of the handler leaves in the table: findMany is a SELECT, it
\* writes nothing
TableAfterDeleteMany(tbl) == <<>>
TableAfterFindMany(tbl) == tbl

\* Date.prototype.toJSON: the ISO-8601 text of a time in milliseconds, kept here as
\* <<seconds, milliseconds>>, the two fields of the text that the model's clock reaches
ToISOStringMsFirst(ms) == <<ms % 1000, ms \div 1000>>
ToISOString(ms) == <<ms \div 1000, ms % 1000>>

\* order of two ISO-8601 texts (lexicographic)
IsoLeq(a, b) == a[1] < b[1] \/ (a[1] = b[1] /\ a[2] <= b[2])

\* JSON serialisation of one record by Fastify
ToJsonSwapped(u) ==
    [id |-> u.id, name |-> u.email, email |-> u.name, createdAt |-> ToISOString(u.createdAt)]
ToJson(u) ==
    [id |-> u.id, name |-> u.name, email |-> u.email, createdAt |-> ToISOString(u.createdAt)]

RECURSIVE Copies(_, _, _)
Copies(rows, S, j) ==
    IF S = {} THEN 0
    ELSE LET u == CHOOSE x \in S : TRUE
         IN (IF ToJson(u) = j THEN rows[u] ELSE 0) + Copies(rows, S \ {u}, j)

\* the JSON array of the rows: one element per row
Serialize(rows) ==
    [j \in {ToJson(u) : u \in DOMAIN rows} |-> Copies(rows, DOMAIN rows, j)]

\* what Fastify sends for the handler's promise: its value as a JSON array with status
\* 200, or, when it rejects, the default error handler's 500 response
ReplyForSwallow(ok, rows) == [status |-> 200, kind |-> "array", users |-> Serialize(rows)]
ReplyFor(ok, rows) ==
    IF ok THEN [status |-> 200, kind |-> "array", users |-> Serialize(rows)]
    ELSE [status |-> 500, kind |-> "error", users |-> EmptyBag]

\* a GET /users arrives on the open listener; the handler calls findMany (line 13)
\* and awaits it
ReqStart(r) ==
    /\ server = "listening"
    /\ reqs[r].st = "idle"
    /\ \A q \in ReqIds : q < r => reqs[q].st # "idle"
    /\ reqs' = [reqs EXCEPT ![r] = [st |-> "pending", startLen |-> Len(table),
                                    later |-> (first.status # 0)]]
    /\ UNCHANGED <<pipeVars, seqVars, dbVars, clock, nextId, table, txns, inserts, rejected,
                   resp, first>>

\* the response to request r, given the outcome of its one findMany call
Respond(r, ok, rows) ==
    LET out == ReplyFor(ok, rows)
    IN /\ resp' = [status |-> out.status, kind |-> out.kind, users |-> out.users,
                   readOk |-> ok, reads |-> 1, startLen |-> reqs[r].startLen,
                   readLen |-> IF ok THEN Len(table) ELSE 0, later |-> reqs[r].later]
       /\ first' = IF first.status = 0
                   THEN [status |-> out.status, len |-> IF ok THEN Len(table) ELSE 0]
                   ELSE first
       /\ reqs' = [reqs EXCEPT ![r] = IdleReq]

\* the query runs, the promise of findMany is fulfilled with the rows, the handler
\* returns them (line 14) and Fastify sends the response
FindManyOk(r) ==
    /\ reqs[r].st = "pending"
    /\ db = "accepting" /\ TableExists
    /\ Respond(r, TRUE, FindMany(table))
    /\ table' = TableAfterFindMany(table)
    /\ UNCHANGED <<pipeVars, seqVars, dbVars, clock, nextId, txns, inserts, rejected>>

\* the query fails, the promise of findMany is rejected and with it the handler's
FindManyFails(r) ==
    /\ reqs[r].st = "pending"
    /\ ~(db = "accepting" /\ TableExists)
    /\ Respond(r, FALSE, EmptyBag)
    /\ UNCHANGED <<pipeVars, seqVars, dbVars, clock, nextId, table, txns, inserts, rejected>>

\* the state the startup leaves: migrations applied, node listening on port 3000
InitApi ==
    /\ image = "ReadmeDockerfile"
    /\ run = 1
    /\ pc = "node"
    /\ exitStatus = RUNNING
    /\ probes = 1
    /\ slept = 0
    /\ probeOk = TRUE
    /\ migrateCalls = 1
    /\ migrateStatus = 0
    /\ log = {"Waiting for Postgres to be ready...", "db:5432 - accepting connections",
              "Postgres is ready!", "Running Prisma migrations...",
              "Starting application...", "Server running"}
    /\ server = "listening"
    /\ db = "accepting"
    /\ ledger = [m \in Migrations |-> "applied"]
    /\ schema = [m \in Migrations |-> [migration |-> m, run |-> 1]]
    /\ generated = 0
    /\ clock = ClockStart
    /\ nextId = 1
    /\ table = <<>>
    /\ txns = {}
    /\ inserts = 0
    /\ rejected = 0
    /\ reqs = [r \in ReqIds |-> IdleReq]
    /\ resp = NoResp
    /\ first = NoFirst
    /\ PipelineIdle

\* the server under load, with the database service stopping and starting
NextApi ==
    \/ DbBoot
    \/ DbAccept
    \/ DbStop
    \/ \E in \in Inputs : InsertBegin(in.name, in.email)
    \/ \E t \in txns : InsertExec(t)
    \/ \E r \in ReqIds : ReqStart(r)
    \/ \E r \in ReqIds : FindManyOk(r)
    \/ \E r \in ReqIds : FindManyFails(r)

ApiSpec == InitApi /\ [][NextApi]_vars

\* concurrent inserts while the database clock advances, read by one GET at a time
NextTable ==
    \/ Tick
    \/ \E in \in Inputs : InsertBegin(in.name, in.email)
    \/ \E t \in txns : InsertExec(t)
    \/ ReqStart(1)
    \/ FindManyOk(1)

TableSpec == InitApi /\ [][NextTable]_vars

(***************************************************************************)
(* test.ts: add and runTests.  addImpl is the body of add at the commit    *)
(* under test: the committed `a + b`, or a body a later commit breaks it   *)
(* into; the five assertions are the file's.                               *)
(***************************************************************************)
AddImpls == {"a + b", "a - b", "abs(a) + abs(b)", "(a + b) % 2^20"}

Abs(x) == IF x < 0 THEN 0 - x ELSE x

Add(impl, a, b) ==
    CASE impl = "a + b" -> a + b
      [] impl = "a - b" -> a - b
      [] impl = "abs(a) + abs(b)" -> Abs(a) + Abs(b)
      [] impl = "(a + b) % 2^20" -> (a + b) % (2^20)

Cases ==
    <<[a |-> 2, b |-> 3, expected |-> 5, pass |-> "PASS: add(2, 3) = 5",
       fail |-> "FAIL: add(2, 3) expected 5 but got"],
      [a |-> 0 - 1, b |-> 1, expected |-> 0, pass |-> "PASS: add(-1, 1) = 0",
       fail |-> "FAIL: add(-1, 1) expected 0 but got"],
      [a |-> 0, b |-> 0, expected |-> 0, pass |-> "PASS: add(0, 0) = 0",
       fail |-> "FAIL: add(0, 0) expected 0 but got"],
      [a |-> 1000000, b |-> 2000000, expected |-> 3000000,
       pass |-> "PASS: add(1000000, 2000000) = 3000000",
       fail |-> "FAIL: add(1000000, 2000000) expected 3000000 but got"],
      [a |-> 10, b |-> 20, expected |-> 30, pass |-> "PASS: add(10, 20) = 30",
       fail |-> "FAIL: add(10, 20) expected 30 but got"]>>

\* runTests from its i-th assertion on: the exit status of the process, the number of
\* assertions it evaluated and the lines it wrote.  A result that differs from the
\* expected one is reported and process.exit(1) ends the process there.
RECURSIVE RunTestsFromNoExit(_, _)
RunTestsFromNoExit(impl, i) ==
    IF i > Len(Cases)
    THEN [status |-> 0, evaluated |-> Len(Cases), lines |-> << <<"All tests passed!">> >>]
    ELSE LET c == Cases[i]
             r == Add(impl, c.a, c.b)
             rest == RunTestsFromNoExit(impl, i + 1)
         IN IF r # c.expected
            THEN [rest EXCEPT !.lines = << <<c.fail, ToString(r)>> >> \o @]
            ELSE [rest EXCEPT !.lines = << <<c.pass>> >> \o @]

RECURSIVE RunTestsFrom(_, _)
RunTestsFrom(impl, i) ==
    IF i > Len(Cases)
    THEN [status |-> 0, evaluated |-> Len(Cases), lines |-> << <<"All tests passed!">> >>]
    ELSE LET c == Cases[i]
             r == Add(impl, c.a, c.b)
         IN IF r # c.expected
            THEN [status |-> 1, evaluated |-> i, lines |-> << <<c.fail, ToString(r)>> >>]
            ELSE LET rest == RunTestsFrom(impl, i + 1)
                 IN [rest EXCEPT !.lines = << <<c.pass>> >> \o @]

\* runTests() (line 46), after the "Running tests" line
RunTests(impl) ==
    LET out == RunTestsFrom(impl, 1)
    IN [out EXCEPT !.lines = << <<"Running tests">> >> \o @]

(***************************************************************************)
(* The Jenkins pipeline.  The repository holds two definitions of it:      *)
(* Jenkinsfile, with four stages and notifications built from the job's    *)
(* environment, and a second one with a fifth stage, Deploy, and           *)
(* notifications of fixed text.                                            *)
(***************************************************************************)
MaxBuilds == 2

Pipelines == {"Jenkinsfile", "JenkinsfileDeploy"}

JenkinsfileStages == <<"Checkout", "Install", "Build", "Test">>

JenkinsfileDeployStages == <<"Checkout", "Install", "Build", "Test", "Deploy">>

Stages(p) == IF p = "Jenkinsfile" THEN JenkinsfileStages ELSE JenkinsfileDeployStages

\* the steps of a stage as the console log shows them: the echo and the traced command
StageSteps(name) ==
    CASE name = "Checkout" -> << <<"checkout scm">> >>
      [] name = "Install" -> << <<"Installing dependencies...">>, <<"+ npm install">> >>
      [] name = "Build" -> << <<"Building TypeScript project...">>, <<"+ npm run build">> >>
      [] name = "Test" -> << <<"Running tests...">>, <<"+ npm test">> >>
      [] name = "Deploy" ->
           << <<"Deploying application...">>,
              <<"+ docker compose -f docker-compose.app.yml up --build -d">> >>

\* what Jenkins writes when a sh step ends with a non-zero status
ScriptError(status) ==
    IF status = 0 THEN <<>> ELSE << <<"ERROR: script returned exit code", ToString(status)>> >>

\* a pipeline runs its stages in order; a stage whose step fails ends the stages with
\* the result FAILURE, and after the last stage the post section runs
NextAfterStageCatchError(status, no, last) ==
    IF no = last THEN [ppc |-> "post", step |-> 1] ELSE [ppc |-> "stages", step |-> no + 1]
NextAfterStage(status, no, last) ==
    IF status # 0 \/ no = last THEN [ppc |-> "post", step |-> 1]
    ELSE [ppc |-> "stages", step |-> no + 1]

(***************************************************************************)
(* The credential and the console log.  MAILTRAP_PASSWORD is bound to the  *)
(* secret text stored as mailtrap-password; Jenkins replaces every         *)
(* occurrence of a bound secret in the console log by ****.  A secret is   *)
(* the sequence of its characters; a log line is a sequence of pieces of   *)
(* text, the characters of a secret among them.                            *)
(***************************************************************************)
\* the password the Mailtrap inbox accepts, and the texts the credential may hold
MailtrapPassword == <<"s", "3", "c">>

Secrets == {<<"s", "3", "c">>, <<"o", "l", "d">>, <<"q", "'", "t", "'", "x">>}

\* environment { MAILTRAP_PASSWORD = credentials('mailtrap-password') }
Credentials(id, store) == IF id = "mailtrap-password" THEN store ELSE <<>>

RECURSIVE MaskLine(_, _)
MaskLine(line, s) ==
    IF line = <<>> \/ s = <<>> THEN line
    ELSE IF Len(line) >= Len(s) /\ SubSeq(line, 1, Len(s)) = s
         THEN <<"****">> \o MaskLine(SubSeq(line, Len(s) + 1, Len(line)), s)
         ELSE <<Head(line)>> \o MaskLine(Tail(line), s)

Mask(lines, s) == [i \in DOMAIN lines |-> MaskLine(lines[i], s)]

\* the word sh reads from a text written between single quotes: a single quote in the
\* text closes or opens the quoting and is not part of the word
IsNotQuote(c) == c # "'"

ShellSingleQuoted(text) == SelectSeq(text, IsNotQuote)

\* the password curl is given after --user.  Jenkinsfile line 101: Groovy puts the text
\* of the secret into the script, '44c92abeb920f3:${env.MAILTRAP_PASSWORD}', and sh
\* reads it; the other pipeline has sh expand "$MAILTRAP_PASSWORD"
CurlPassword(p, password) ==
    IF p = "Jenkinsfile" THEN ShellSingleQuoted(password) ELSE password

(***************************************************************************)
(* The notification: curl hands one message to the Mailtrap SMTP server.   *)
(***************************************************************************)
JobName == "deploy-test"

\* env.BUILD_URL of build n of the job, and its console page
BuildUrl(n) == [job |-> JobName, build |-> n, page |-> ""]

ConsoleUrl(n) == [job |-> JobName, build |-> n, page |-> "console"]

\* the message of a post block: its subject and body text, and the job names, build
\* numbers and URLs the text holds
Notification(p, variant, n) ==
    IF p = "Jenkinsfile"
    THEN [variant |-> variant,
          subject |-> IF variant = "success" THEN "SUCCESS: ${JOB_NAME} #${BUILD_NUMBER}"
                      ELSE "FAILURE: ${JOB_NAME} #${BUILD_NUMBER}",
          body |-> IF variant = "success" THEN "The pipeline completed successfully."
                   ELSE "The pipeline FAILED.",
          jobNames |-> {JobName},
          buildNumbers |-> {n},
          urls |-> IF variant = "success" THEN {BuildUrl(n)} ELSE {ConsoleUrl(n)}]
    ELSE [variant |-> variant,
          subject |-> IF variant = "success" THEN "SUCCESS: Build completed successfully"
                      ELSE "FAILURE: Build failed",
          body |-> IF variant = "success"
                   THEN "The pipeline completed successfully. All tests passed!"
                   ELSE "The pipeline FAILED. Check the Jenkins logs for details.",
          jobNames |-> {},
          buildNumbers |-> {},
          urls |-> {}]

\* exit status of curl: 7 when it cannot connect, 67 when the server denies the login
CurlExit(net, password) ==
    IF ~net THEN 7 ELSE IF password # MailtrapPassword THEN 67 ELSE 0

\* what curl writes when it fails
CurlStderr(status) == IF status = 0 THEN <<>> ELSE << <<"curl:", ToString(status)>> >>

\* the curl command as sh -x traces it, after the warning Jenkins gives for a secret
\* interpolated by Groovy (Jenkinsfile line 101)
CurlTrace(p, password) ==
    IF p = "Jenkinsfile"
    THEN << <<"Warning: A secret was passed to sh using Groovy String interpolation",
              "MAILTRAP_PASSWORD">>,
            <<"+ curl --ssl-reqd --url smtps://sandbox.smtp.mailtrap.io:465 --user",
              "44c92abeb920f3:">> \o CurlPassword(p, password) >>
    ELSE << <<"+ curl --url smtp://sandbox.smtp.mailtrap.io:2525 --user",
              "44c92abeb920f3:">> \o CurlPassword(p, password) >>

PostEcho(cond) ==
    IF cond = "success"
    THEN << <<"====================================">>, <<"Pipeline completed successfully!">>,
            <<"====================================">> >>
    ELSE << <<"====================================">>,
            <<"Pipeline FAILED! Check the logs above.">>,
            <<"====================================">> >>

\* the console output of one post block
PostLog(p, cond, password, status) ==
    PostEcho(cond) \o CurlTrace(p, password) \o CurlStderr(status) \o ScriptError(status)

\* Jenkins evaluates the conditions of a post section in its own fixed order, failure
\* before success, each against the build result at that moment
PostOrderAsWritten == <<"success", "failure">>
PostOrder == <<"failure", "success">>

Meets(cond, res) ==
    \/ cond = "success" /\ res = "SUCCESS"
    \/ cond = "failure" /\ res = "FAILURE"

\* the containers a post block leaves running: the blocks echo and run curl only
PostContainersRollback(cond, cont) == IF cond = "failure" THEN {} ELSE cont
PostContainers(cond, cont) == cont

(***************************************************************************)
(* The containers of docker-compose.app.yml.                               *)
(***************************************************************************)
DbContainer == [name |-> "deploy-test-db", build |-> 0]

AppContainer(n) == [name |-> "deploy-test-app", build |-> n]

\* docker compose up --build -d: the image is built, then the database container is
\* started if it is not running and the app container replaced by one of the new image
ComposeUp(outcome, cont, n) ==
    CASE outcome = "up" -> [status |-> 0, containers |-> {DbContainer, AppContainer(n)}]
      [] outcome = "build fails" -> [status |-> 1, containers |-> cont]
      [] outcome = "start fails" -> [status |-> 1, containers |-> {DbContainer}]

ComposeOutcomes == {"up", "build fails", "start fails"}

(***************************************************************************)
(* A pipeline run.  result2 and plog2 follow the same run, with the same   *)
(* outcome of every step, made with secret2 in the credential store.       *)
(***************************************************************************)
InitPipe ==
    /\ image = "Dockerfile"
    /\ run = 1
    /\ pc = "start"
    /\ exitStatus = RUNNING
    /\ probes = 0
    /\ slept = 0
    /\ probeOk = FALSE
    /\ migrateCalls = 0
    /\ migrateStatus = RUNNING
    /\ log = {}
    /\ server = "none"
    /\ db = "down"
    /\ ledger = [m \in Migrations |-> "pending"]
    /\ schema = <<>>
    /\ generated = 0
    /\ clock = ClockStart
    /\ nextId = 1
    /\ table = <<>>
    /\ txns = {}
    /\ inserts = 0
    /\ rejected = 0
    /\ reqs = [r \in ReqIds |-> IdleReq]
    /\ resp = NoResp
    /\ first = NoFirst
    /\ pipeline = "Jenkinsfile"
    /\ addImpl = "a + b"
    /\ build = 0
    /\ ppc = "idle"
    /\ step = 0
    /\ ran = <<>>
    /\ result = "SUCCESS"
    /\ result2 = "SUCCESS"
    /\ mails = <<>>
    /\ plog = <<>>
    /\ plog2 = <<>>
    /\ secret \in Secrets
    /\ secret2 \in Secrets
    /\ containers = {}
    /\ atFailure = {}
    /\ testOut = NoTest

\* a push to main starts build number build + 1 of the job on the pushed commit
Trigger(p, impl) ==
    /\ ppc \in {"idle", "done"}
    /\ build < MaxBuilds
    /\ build' = build + 1
    /\ pipeline' = p
    /\ addImpl' = impl
    /\ ppc' = "stages"
    /\ step' = 1
    /\ ran' = <<>>
    /\ result' = "SUCCESS"
    /\ result2' = "SUCCESS"
    /\ mails' = <<>>
    /\ plog' = <<>>
    /\ plog2' = <<>>
    /\ atFailure' = {}
    /\ testOut' = NoTest
    /\ UNCHANGED <<seqVars, dbVars, apiVars, secret, secret2, containers>>

\* the end of the current stage: its sh step gave the exit status and wrote the output,
\* and left the containers cont running
StageEnd(name, status, out, cont) ==
    LET lines == StageSteps(name) \o out \o ScriptError(status)
        next == NextAfterStage(status, step, Len(Stages(pipeline)))
    IN /\ ran' = Append(ran, [stage |-> name, status |-> status])
       /\ result' = IF status # 0 THEN "FAILURE" ELSE result
       /\ result2' = IF status # 0 THEN "FAILURE" ELSE result2
       /\ plog' = plog \o Mask(lines, Credentials("mailtrap-password", secret))
       /\ plog2' = plog2 \o Mask(lines, Credentials("mailtrap-password", secret2))
       /\ containers' = cont
       /\ atFailure' = IF status # 0 THEN cont ELSE atFailure
       /\ ppc' = next.ppc
       /\ step' = next.step

\* Checkout, Install, Build: checkout scm, npm install, npm run build succeed or fail
PlainStage(status) ==
    /\ ppc = "stages"
    /\ Stages(pipeline)[step] \in {"Checkout", "Install", "Build"}
    /\ StageEnd(Stages(pipeline)[step], status, <<>>, containers)
    /\ UNCHANGED <<seqVars, dbVars, apiVars, pipeline, addImpl, build, mails, secret, secret2,
                   testOut>>

\* Test: npm test runs the test program and exits with its status
TestStage ==
    /\ ppc = "stages"
    /\ Stages(pipeline)[step] = "Test"
    /\ testOut' = RunTests(addImpl)
    /\ StageEnd("Test", testOut'.status, testOut'.lines, containers)
    /\ UNCHANGED <<seqVars, dbVars, apiVars, pipeline, addImpl, build, mails, secret, secret2>>

\* Deploy: docker compose up --build -d
DeployStage(outcome) ==
    /\ ppc = "stages"
    /\ Stages(pipeline)[step] = "Deploy"
    /\ LET up == ComposeUp(outcome, containers, build)
       IN StageEnd("Deploy", up.status, <<>>, up.containers)
    /\ UNCHANGED <<seqVars, dbVars, apiVars, pipeline, addImpl, build, mails, secret, secret2,
                   testOut>>

\* the next condition of the post section: its block runs when the build result meets
\* it; the block echoes and runs curl, and a curl that fails makes the build a FAILURE
PostCondition(net) ==
    /\ ppc = "post"
    /\ LET cond == PostOrder[step]
           pw == Credentials("mailtrap-password", secret)
           pw2 == Credentials("mailtrap-password", secret2)
           status == CurlExit(net, CurlPassword(pipeline, pw))
           status2 == CurlExit(net, CurlPassword(pipeline, pw2))
       IN /\ IF Meets(cond, result)
             THEN /\ mails' = Append(mails, [message |-> Notification(pipeline, cond, build),
                                             password |-> CurlPassword(pipeline, pw),
                                             status |-> status])
                  /\ plog' = plog \o Mask(PostLog(pipeline, cond, pw, status), pw)
                  /\ result' = IF status # 0 THEN "FAILURE" ELSE result
                  /\ containers' = PostContainers(cond, containers)
             ELSE UNCHANGED <<mails, plog, result, containers>>
          /\ IF Meets(cond, result2)
             THEN /\ plog2' = plog2 \o Mask(PostLog(pipeline, cond, pw2, status2), pw2)
                  /\ result2' = IF status2 # 0 THEN "FAILURE" ELSE result2
             ELSE UNCHANGED <<plog2, result2>>
    /\ IF step < Len(PostOrder)
       THEN step' = step + 1 /\ ppc' = ppc
       ELSE step' = 0 /\ ppc' = "done"
    /\ UNCHANGED <<seqVars, dbVars, apiVars, pipeline, addImpl, build, ran, secret, secret2,
                   atFailure, testOut>>

NextPipe ==
    \/ \E p \in Pipelines, impl \in AddImpls : Trigger(p, impl)
    \/ \E status \in {0, 1} : PlainStage(status)
    \/ TestStage
    \/ \E outcome \in ComposeOutcomes : DeployStage(outcome)
    \/ \E net \in BOOLEAN : PostCondition(net)

PipeSpec == InitPipe /\ [][NextPipe]_vars

(***************************************************************************)
(* Startup sequencer: claims C1 to C5.                                     *)
(***************************************************************************)
WaitPcs == {"start", "probe", "sleep"}

\* C1: the listener of node dist/index.js is started, and can be open, only after this
\* run's migrate deploy has ended with status 0 and left nothing pending or failed;
\* it is never open while the migration has not run, is running, or has failed.
C1_ListenerOnlyAfterMigration ==
    (pc \in {"exec", "node"} \/ server \in {"starting", "listening"}) =>
        /\ migrateCalls = 1
        /\ migrateStatus = 0
        /\ \A m \in Migrations : ledger[m] = "applied"

C1_Witness == server = "listening" /\ migrateStatus = 0 /\ probes >= 2

\* C2: when migrate deploy ends with an error the script has exited with that non-zero
\* status, migrate deploy has been invoked once only, and the listener was never started.
C2_MigrationFailureFatal ==
    (migrateStatus # RUNNING /\ migrateStatus # 0) =>
        /\ pc = "exited"
        /\ exitStatus = migrateStatus
        /\ exitStatus # 0
        /\ migrateCalls = 1
        /\ server = "none"
        /\ "Starting application..." \notin log

C2_Witness == pc = "exited" /\ migrateStatus = 1 /\ exitStatus = 1 /\ ledger[1] = "applied"

\* C3: in one run migrate deploy is invoked at most once, exactly once by the time the
\* server is started, only after a pg_isready of this run returned 0, and once it has
\* been invoked the script is never at the readiness probe again.
C3_MigrateOnceAfterReady ==
    /\ migrateCalls <= 1
    /\ (migrateCalls >= 1 => probeOk /\ pc \notin WaitPcs)
    /\ (~probeOk => migrateCalls = 0 /\ pc \in WaitPcs \cup {"exited"})
    /\ (pc \in {"migrating", "exec", "node"} => migrateCalls = 1)

C3_Witness == pc = "migrating" /\ migrateCalls = 1 /\ probeOk /\ slept >= 2

\* C4: in the image built by src/Dockerfile, if the database from some point on always
\* accepts connections, the readiness wait ends and migrate deploy is invoked.
C4_ReadinessWaitEnds ==
    (image = "Dockerfile") => (<>[](db = "accepting") => <>(migrateCalls >= 1))

\* C5: while no pg_isready has returned 0 the script stays in the wait loop: it has not
\* exited, run migrate deploy or started the server, and its log holds nothing but the
\* waiting line and the probe's own status lines; every failed probe
\* is followed by one `sleep 1` and then another probe, with no bound on the attempts.
C5_FailedProbeRetriedForever ==
    /\ ~probeOk =>
        /\ pc \in WaitPcs
        /\ exitStatus = RUNNING
        /\ migrateCalls = 0
        /\ server = "none"
        /\ log \subseteq {"Waiting for Postgres to be ready...",
                         "db:5432 - rejecting connections", "db:5432 - no response"}
    /\ (pc = "probe" => ENABLED Probe)
    /\ (pc = "sleep" => ENABLED Sleep /\ ~probeOk)
    /\ (pc = "probe" /\ probes < MaxProbes => slept = probes * SleepSeconds)
    /\ (pc = "sleep" /\ probes < MaxProbes => slept = (probes - 1) * SleepSeconds)

C5_Witness == ~probeOk /\ pc = "sleep" /\ probes >= 3 /\ db = "down"

(***************************************************************************)
(* GET /users and the User table: claims C6 to C10.                        *)
(***************************************************************************)
\* C6: a successful GET /users has status 200 and a JSON array holding exactly the rows
\* stored when it read the table: each of them once, with its id, name and email, no
\* other element, and the empty array for the empty table.
C6_ResponseIsTheTable ==
    /\ resp.readOk => resp.status = 200
    /\ resp.status = 200 =>
        /\ resp.kind = "array"
        /\ resp.readLen <= Len(table)
        /\ BagCardinality(resp.users) = resp.readLen
        /\ (resp.readLen = 0 => resp.users = EmptyBag)
        /\ \A i \in 1..resp.readLen :
             \E j \in DOMAIN resp.users :
                /\ j.id = table[i].id /\ j.name = table[i].name /\ j.email = table[i].email
                /\ resp.users[j] = 1
                /\ \A k \in DOMAIN resp.users : k.id = j.id => k = j
        /\ \A j \in DOMAIN resp.users : \E i \in 1..resp.readLen : j.id = table[i].id

C6_Witness == resp.status = 200 /\ resp.readLen = 2 /\ BagCardinality(resp.users) = 2

\* position of the row with the given id in insertion order
PosOf(id) == CHOOSE i \in 1..Len(table) : table[i].id = id

\* C7 as stated: of two records a GET /users reports, the one inserted first never has
\* the later creation timestamp.
C7_TimestampsFollowInsertion ==
    resp.status = 200 =>
        \A x, y \in DOMAIN resp.users :
            PosOf(x.id) < PosOf(y.id) => IsoLeq(x.createdAt, y.createdAt)

\* C7 amended: of two records a GET /users reports, where the first was inserted before
\* the transaction inserting the second began, the first never has the later timestamp.
C7_TimestampsFollowSequentialInsertion ==
    resp.status = 200 =>
        \A x, y \in DOMAIN resp.users :
            (PosOf(x.id) < PosOf(y.id) /\ table[PosOf(y.id)].began >= PosOf(x.id))
                => IsoLeq(x.createdAt, y.createdAt)

C7_Witness ==
    /\ resp.status = 200
    /\ \E x, y \in DOMAIN resp.users :
          /\ PosOf(x.id) < PosOf(y.id)
          /\ table[PosOf(y.id)].began >= PosOf(x.id)
          /\ x.createdAt # y.createdAt

\* C8: no two rows share an id or an email; a row, once inserted, never changes or
\* disappears; an insert whose email is already stored is rejected and leaves the table
\* as it was.
C8_UniqueAndImmutable ==
    [][/\ \A i, j \in 1..Len(table') :
            i # j => table'[i].id # table'[j].id /\ table'[i].email # table'[j].email
       /\ Len(table') >= Len(table)
       /\ \A i \in 1..Len(table) : table'[i] = table[i]
       /\ \A t \in txns :
            (t \notin txns' /\ nextId' # nextId /\ \E i \in 1..Len(table) : table[i].email = t.email)
                => table' = table /\ rejected' = rejected + 1
      ]_vars

C8_Witness == rejected = 1 /\ Len(table) = 1 /\ nextId = 3

\* C9: every row committed before a GET /users started is in its response: the handler
\* reads the table again for every request.
C9_ReadsAgainEveryRequest ==
    resp.status = 200 =>
        \A i \in 1..resp.startLen :
            \E j \in DOMAIN resp.users : j.id = table[i].id /\ j.email = table[i].email

C9_Witness ==
    /\ first.status = 200
    /\ resp.later /\ resp.status = 200
    /\ resp.startLen > first.len

\* C10: a failed read gives status 500 with no rows, after one read; the server goes on
\* listening and takes further requests, and a request whose read succeeds gets 200.
C10_ReadFailureIsServerError ==
    /\ resp.status # 0 => (resp.readOk <=> resp.status = 200)
    /\ (resp.status # 0 /\ ~resp.readOk) =>
        /\ resp.status = 500
        /\ resp.kind = "error"
        /\ resp.users = EmptyBag
        /\ resp.reads = 1
    /\ server = "listening" /\ pc = "node" /\ exitStatus = RUNNING
    /\ ENABLED (\E r \in ReqIds : ReqStart(r) \/ FindManyOk(r) \/ FindManyFails(r))

C10_Witness ==
    /\ first.status = 500
    /\ resp.later /\ resp.status = 200
    /\ BagCardinality(resp.users) >= 1

(***************************************************************************)
(* Listener bind failure and migration ledger: claims C11 and C12.         *)
(***************************************************************************)
\* C11: when the listener fails to bind, the container's main process has exited with a
\* non-zero status (1) and this run's log holds the error and never "Server running";
\* "Server running" is logged only by a run whose listener is open.
C11_BindFailureExits ==
    /\ server = "closed" =>
        /\ pc = "exited"
        /\ exitStatus # 0 /\ exitStatus # RUNNING
        /\ "Error: listen" \in log
        /\ "Server running" \notin log
    /\ "Server running" \in log => server = "listening" /\ exitStatus = RUNNING

C11_Witness == server = "closed" /\ exitStatus = 1 /\ migrateStatus = 0 /\ run = 2

\* C12: over any sequence of container starts no migration is generated, no migration's
\* SQL is executed twice, the executed migrations are exactly those the ledger records as
\* applied, an applied migration stays applied, and a migrate deploy that finds every
\* migration applied leaves schema and ledger as they are and, with the database
\* accepting connections, exits 0.
C12_MigrationIdempotent ==
    [][/\ generated' = 0
       /\ \A i, j \in 1..Len(schema') : i # j => schema'[i].migration # schema'[j].migration
       /\ {schema'[i].migration : i \in 1..Len(schema')} =
              {m \in Migrations : ledger'[m] = "applied"}
       /\ \A m \in Migrations : ledger[m] = "applied" => ledger'[m] = "applied"
       /\ \A i \in 1..Len(schema) : schema'[i] = schema[i]
       /\ (pc = "migrating" /\ \A m \in Migrations : ledger[m] = "applied") =>
            /\ ledger' = ledger
            /\ schema' = schema
            /\ (pc' # pc /\ db = "accepting") => (migrateStatus' = 0 /\ pc' = "exec")
      ]_vars

\* the second start ran migrate deploy against the schema the first had fully migrated
C12_Witness ==
    /\ run = 2 /\ migrateCalls = 1 /\ migrateStatus = 0
    /\ Len(schema) = NumMigrations
    /\ \A i \in 1..Len(schema) : schema[i].run = 1

(***************************************************************************)
(* The HTTP API and the User table: claim C20.                             *)
(***************************************************************************)
\* C20: no step of a GET /users, the arrival of the request or its response, successful
\* or failed, changes the User table or its id sequence; the rows already stored are
\* never changed or removed, and the table changes only by an insert transaction
\* appending its row.
C20_ApiReadOnly ==
    [][/\ (reqs' # reqs \/ resp' # resp) => (table' = table /\ nextId' = nextId)
       /\ Len(table') >= Len(table)
       /\ \A i \in 1..Len(table) : table'[i] = table[i]
       /\ table' # table =>
            \E t \in txns :
                /\ t \notin txns'
                /\ Len(table') = Len(table) + 1
                /\ table'[Len(table')].name = t.name
                /\ table'[Len(table')].email = t.email
      ]_vars

C20_Witness ==
    /\ first.status = 500
    /\ resp.later /\ resp.status = 200 /\ resp.readLen = 2
    /\ Len(table) = 2

(***************************************************************************)
(* The pipeline: claims C13 to C19.                                        *)
(***************************************************************************)
AllPassed ==
    /\ Len(ran) = Len(Stages(pipeline))
    /\ \A i \in 1..Len(ran) : ran[i].status = 0

SomeFailed == \E i \in 1..Len(ran) : ran[i].status # 0

\* C13: the stages a run has executed are the first ones of its pipeline's declared
\* list, in that order; every stage before the last executed one succeeded; while the
\* stages run none has failed; a failed stage is the last executed one, it ends the
\* stages and makes the result FAILURE.
C13_StagesInOrder ==
    /\ Len(ran) <= Len(Stages(pipeline))
    /\ \A i \in 1..Len(ran) : ran[i].stage = Stages(pipeline)[i]
    /\ \A i \in 1..Len(ran) : i < Len(ran) => ran[i].status = 0
    /\ ppc = "stages" => (step = Len(ran) + 1 /\ step <= Len(Stages(pipeline)) /\ ~SomeFailed)
    /\ SomeFailed => (ppc \in {"post", "done"} /\ result = "FAILURE")
    /\ ppc \in {"post", "done"} => (SomeFailed \/ AllPassed)

C13_Witness ==
    /\ ppc = "done" /\ pipeline = "JenkinsfileDeploy"
    /\ Len(ran) = 3 /\ ran[3].stage = "Build" /\ ran[3].status # 0
    /\ result = "FAILURE"

\* C14: a run that ends with the result SUCCESS has executed the Deploy stage, after a
\* Test stage that exited 0; a run whose tests fail executes no Deploy stage.
C14_SuccessMeansDeployed ==
    /\ (ppc = "done" /\ result = "SUCCESS") =>
          \E i, j \in 1..Len(ran) :
              /\ j < i
              /\ ran[j].stage = "Test" /\ ran[j].status = 0
              /\ ran[i].stage = "Deploy"
    /\ (testOut.status # RUNNING /\ testOut.status # 0) =>
          \A i \in 1..Len(ran) : ran[i].stage # "Deploy"

\* C15: a run triggers at most one notification, and a finished run has triggered
\* exactly one: the success variant when, and only when, every stage passed, the
\* failure variant when, and only when, a stage failed; a success notification that
\* curl fails to deliver is not followed by the failure variant.
C15_ExactlyOneNotification ==
    /\ Len(mails) <= 1
    /\ ppc = "done" =>
          /\ Len(mails) = 1
          /\ mails[1].message.variant = "success" <=> AllPassed
          /\ mails[1].message.variant = "failure" <=> SomeFailed

C15_Witness ==
    /\ ppc = "done" /\ AllPassed
    /\ Len(mails) = 1 /\ mails[1].message.variant = "success" /\ mails[1].status # 0
    /\ result = "FAILURE"

\* the assertions of test.ts that do not hold of the add under test
FailingCases ==
    {i \in 1..Len(Cases) : Add(addImpl, Cases[i].a, Cases[i].b) # Cases[i].expected}

\* C16: when some assertion fails the test program exits non-zero at the first failing
\* one, having evaluated none after it and without "All tests passed!", and the Test
\* stage fails with it; it exits 0, after all five assertions and with "All tests
\* passed!" as its last line, exactly when every assertion holds.
C16_TestsFailFast ==
    testOut.status # RUNNING =>
        /\ FailingCases # {} =>
              /\ testOut.status # 0
              /\ testOut.evaluated = Lowest(FailingCases)
              /\ Len(testOut.lines) = testOut.evaluated + 1
              /\ \A k \in 1..Len(testOut.lines) : testOut.lines[k] # <<"All tests passed!">>
              /\ \A k \in 1..Len(testOut.lines) :
                    \A i \in 1..Len(Cases) :
                        i > testOut.evaluated =>
                            testOut.lines[k][1] \notin {Cases[i].pass, Cases[i].fail}
              /\ ran[Len(ran)].stage = "Test" /\ ran[Len(ran)].status # 0
              /\ result = "FAILURE" /\ ppc # "stages"
        /\ testOut.status = 0 <=> FailingCases = {}
        /\ testOut.status = 0 =>
              /\ testOut.evaluated = Len(Cases)
              /\ testOut.lines[Len(testOut.lines)] = <<"All tests passed!">>
              /\ \E i \in 1..Len(ran) : ran[i].stage = "Test" /\ ran[i].status = 0

C16_Witness ==
    /\ ppc = "done"
    /\ testOut.status = 1 /\ testOut.evaluated = 4
    /\ ran[Len(ran)].stage = "Test" /\ result = "FAILURE"

\* the text s occurs in the line
Occurs(s, line) ==
    \E i \in 1..Len(line) : i + Len(s) - 1 <= Len(line) /\ SubSeq(line, i, i + Len(s) - 1) = s

\* the mail server treats the secrets of the two runs alike: it accepts both or neither
SameLogin == (secret = MailtrapPassword) <=> (secret2 = MailtrapPassword)

\* C17: the secret of the credential store never appears in the console log, and two
\* runs that differ only in the secret have the same console log.  The second part is
\* taken in the reading most favourable to the pipeline: for two secrets the mail
\* server treats alike, so that curl has the same outcome in both runs.
C17_LogIndependentOfSecret ==
    /\ \A k \in 1..Len(plog) : ~Occurs(secret, plog[k])
    /\ SameLogin => plog = plog2

\* C18: every notification a run sends, of either variant, holds the job's name, the
\* run's build number and a URL of the run (its page or its console log).
C18_NotificationsCarryIdentity ==
    \A k \in 1..Len(mails) :
        /\ JobName \in mails[k].message.jobNames
        /\ build \in mails[k].message.buildNumbers
        /\ mails[k].message.urls \cap {BuildUrl(build), ConsoleUrl(build)} # {}

\* C19: once a stage of a run has failed, the running containers stay those the failed
\* stage left, through the post section and after it: the failure block restores,
\* stops and starts nothing.
C19_NoRollback ==
    SomeFailed => containers = atFailure

\* the second build's Deploy failed after replacing the app container: the failure
\* notification is out, the database container runs and no app container does
C19_Witness ==
    /\ ppc = "done" /\ build = 2
    /\ ran[Len(ran)].stage = "Deploy" /\ ran[Len(ran)].status # 0
    /\ Len(mails) = 1 /\ mails[1].message.variant = "failure"
    /\ containers = {DbContainer}

(***************************************************************************)
(* Startup ordering across container restarts: claim C21.                  *)
(***************************************************************************)
\* C21: a container start follows an exit only, and begins at line 1 with nothing of the
\* earlier run's probe or migration result kept; the listener is started, and open,
\* only in a run whose own migrate deploy ended with status 0; a run whose migrate
\* deploy failed never starts the listener, whatever earlier runs applied; and when the
\* database in the end keeps accepting connections, every restarted run invokes
\* migrate deploy again.
C21_OrderingAcrossRestarts ==
    /\ [](server \in {"starting", "listening"} => (migrateCalls = 1 /\ migrateStatus = 0))
    /\ []((migrateStatus # RUNNING /\ migrateStatus # 0) => (server = "none" /\ pc = "exited"))
    /\ [][run' # run =>
            /\ run' = run + 1
            /\ pc = "exited" /\ pc' = "start"
            /\ probeOk' = FALSE /\ probes' = 0
            /\ migrateCalls' = 0 /\ migrateStatus' = RUNNING
            /\ server' = "none" /\ exitStatus' = RUNNING
            /\ ledger' = ledger /\ schema' = schema
       ]_vars
    /\ [][(server = "none" /\ server' # "none") =>
            (run' = run /\ pc = "exec" /\ migrateCalls = 1 /\ migrateStatus = 0)
       ]_vars
    /\ \A r \in 2..MaxRuns :
          <>[](db = "accepting") => [](run = r => <>(run = r /\ migrateCalls = 1))

\* the first run applied one migration and exited on a migrate deploy failure; the
\* second run, started by the restart policy, applied the next one and serves
C21_Witness ==
    /\ run = 2 /\ server = "listening" /\ migrateCalls = 1 /\ migrateStatus = 0
    /\ Len(schema) >= 2 /\ schema[1].run = 1 /\ schema[2].run = 2

====
